---- MODULE Spec2Model ----
(***************************************************************************)
(* A model of PyHum's map module (_pyhum_map.py) and of the helpers of     *)
(* pyhum_utils.py that it calls.                                           *)
(*                                                                         *)
(* Numbers.  numpy's float64 arrays are modelled by an extended number     *)
(* line: a finite fixed-point value <<"fin", v>> (v an integer count of    *)
(* 1/UnitsPerMetre metre, or of degrees for an angle), <<"nan", 0>>,       *)
(* <<"inf", 1>> and <<"inf", -1>>, with the IEEE-754 rules for NaN and     *)
(* the infinities.  np.seterr(divide='ignore', invalid='ignore') (lines    *)
(* 87-88) makes invalid operations return NaN without raising.  A square   *)
(* root is rounded down to the fixed-point grid.  Angles are whole         *)
(* multiples of 90 degrees, so that cos and sin are exact.                 *)
(***************************************************************************)
EXTENDS Integers, Sequences, FiniteSets, TLC

\* ------------------------------------------------------------------------
\* Bounds of the model
\* ------------------------------------------------------------------------

\* the largest number of pings of a chunk (the chunk width shape_port[-1])
NPings == 2

\* the number of range bins of one sonar channel (rows of port_fp[p])
Extent == 2

\* fixed-point resolution of a coordinate: units per metre
UnitsPerMetre == 16

\* ------------------------------------------------------------------------
\* Extended numbers (numpy float64)
\* ------------------------------------------------------------------------

Fin(v) == <<"fin", v>>

NaN == <<"nan", 0>>

PInf == <<"inf", 1>>

NInf == <<"inf", -1>>

IsNaN(a) == a[1] = "nan"

IsInf(a) == a[1] = "inf"

IsFin(a) == a[1] = "fin"

Sgn(v) == IF v > 0 THEN 1 ELSE IF v < 0 THEN -1 ELSE 0

FNeg(a) == IF IsNaN(a) THEN NaN ELSE <<a[1], -a[2]>>

FAdd(a, b) ==
  IF IsNaN(a) \/ IsNaN(b) THEN NaN
  ELSE IF IsFin(a) /\ IsFin(b) THEN Fin(a[2] + b[2])
  ELSE IF IsInf(a) /\ IsInf(b) THEN (IF a[2] = b[2] THEN a ELSE NaN)
  ELSE IF IsInf(a) THEN a ELSE b

FSub(a, b) == FAdd(a, FNeg(b))

FMul(a, b) ==
  IF IsNaN(a) \/ IsNaN(b) THEN NaN
  ELSE IF IsFin(a) /\ IsFin(b) THEN Fin(a[2] * b[2])
  ELSE IF a[2] = 0 \/ b[2] = 0 THEN NaN
  ELSE <<"inf", Sgn(a[2]) * Sgn(b[2])>>

\* np.power(x, 2.0)
FPow2(a) == FMul(a, a)

\* floor of the square root of a natural number
ISqrt(v) == CHOOSE r \in 0..v : r * r <= v /\ (r + 1) * (r + 1) > v

\* a square root that takes the magnitude of a negative argument
FSqrtOfMagnitude(a) ==
  IF IsNaN(a) THEN NaN
  ELSE IF IsInf(a) THEN PInf
  ELSE IF a[2] < 0 THEN Fin(ISqrt(-a[2]))
  ELSE Fin(ISqrt(a[2]))

\* np.sqrt: NaN for a negative argument (invalid='ignore'), never an error
FSqrt(a) ==
  IF IsNaN(a) THEN NaN
  ELSE IF IsInf(a) THEN (IF a[2] > 0 THEN PInf ELSE NaN)
  ELSE IF a[2] < 0 THEN NaN
  ELSE Fin(ISqrt(a[2]))

\* np.cos of an angle held in degrees; NaN for NaN and for an infinity
FCos(a) ==
  IF ~IsFin(a) THEN NaN
  ELSE CASE a[2] % 360 = 0 -> Fin(1)
         [] a[2] % 360 = 90 -> Fin(0)
         [] a[2] % 360 = 180 -> Fin(-1)
         [] a[2] % 360 = 270 -> Fin(0)

\* np.sin of an angle held in degrees
FSin(a) ==
  IF ~IsFin(a) THEN NaN
  ELSE CASE a[2] % 360 = 0 -> Fin(0)
         [] a[2] % 360 = 90 -> Fin(1)
         [] a[2] % 360 = 180 -> Fin(0)
         [] a[2] % 360 = 270 -> Fin(-1)

\* ------------------------------------------------------------------------
\* make_map: geometry (lines 343-378)
\* ------------------------------------------------------------------------

\* np.linspace(start, stop, num) for integers whose step is whole
linspace(start, stop, num) ==
  [i \in 1..num |-> IF num = 1 THEN start
                    ELSE start + ((i - 1) * (stop - start)) \div (num - 1)]

\* a range vector that starts at 0
yvecFromZero(pix, extent) == linspace(0, extent * pix, extent)

\* yvec = np.linspace(pix_m, extent*pix_m, extent)
yvecOf(pix, extent) == linspace(pix, extent * pix, extent)

\* a beam offset with sine and cosine exchanged
calc_beam_pos_swapped(dist, brg, x, y) ==
  LET dist_x == FMul(dist, FCos(brg))
      dist_y == FMul(dist, FSin(brg))
  IN  <<FAdd(x, dist_x), FAdd(y, dist_y)>>

\* calc_beam_pos(dist, bearing, x, y) on one sample
calc_beam_pos(dist, brg, x, y) ==
  LET dist_x == FMul(dist, FSin(brg))
      dist_y == FMul(dist, FCos(brg))
  IN  <<FAdd(x, dist_x), FAdd(y, dist_y)>>

\* the body of the loop over k: the pair <<xx, yy>> of ping k
BeamLine(ek, nk, tk, dk, yv, extent) ==
  LET x == [j \in 1..(2 * extent) |-> ek]
      rangedist == [i \in 1..extent |->
                      FSqrt(FSub(FPow2(Fin(yv[i])), FPow2(dk)))]
      y == [j \in 1..(2 * extent) |->
              IF j <= extent THEN FAdd(nk, rangedist[j])
              ELSE FSub(nk, rangedist[j - extent])]
      xr == [j \in 1..(2 * extent) |->
               FSub(FSub(ek, FMul(FSub(x[j], ek), FCos(tk))),
                    FMul(FSub(y[j], nk), FSin(tk)))]
      yr == [j \in 1..(2 * extent) |->
               FAdd(FSub(nk, FMul(FSub(x[j], ek), FSin(tk))),
                    FMul(FSub(y[j], nk), FCos(tk)))]
  IN  << [j \in 1..(2 * extent) |-> calc_beam_pos(dk, tk, xr[j], yr[j])[1]],
         [j \in 1..(2 * extent) |-> calc_beam_pos(dk, tk, xr[j], yr[j])[2]] >>

\* np.vstack((dat_port, dat_star)): the rows of port, then the rows of star
vstack(a, b) == a \o b

\* merge[np.isnan(merge)] = 0
ZeroNaN(m) ==
  [r \in 1..Len(m) |-> [c \in 1..Len(m[r]) |->
      IF IsNaN(m[r][c]) THEN Fin(0) ELSE m[r][c]]]

\* merge[:, :len(n)]
TruncCols(m, len) ==
  [r \in 1..Len(m) |-> [c \in 1..(IF len < Len(m[r]) THEN len ELSE Len(m[r])) |->
      m[r][c]]]

\* np.asarray(X).flatten(), the transposition left out: ping after ping
FlattenNoTranspose(L, rows, cols) ==
  [j \in 1..(rows * cols) |-> L[((j - 1) \div rows) + 1][((j - 1) % rows) + 1]]

\* np.asarray(X).T.flatten(): X is a list of len(n) lines of 2*extent samples;
\* position (i-1)*len(n) + k holds sample i of ping k
TransposeFlatten(L, rows, cols) ==
  [j \in 1..(rows * cols) |-> L[((j - 1) % cols) + 1][((j - 1) \div cols) + 1]]

\* merge.flatten(): row-major, position (i-1)*cols + k holds merge[i][k]
flatten(m) ==
  IF Len(m) = 0 THEN << >>
  ELSE [j \in 1..(Len(m) * Len(m[1])) |->
          m[((j - 1) \div Len(m[1])) + 1][((j - 1) % Len(m[1])) + 1]]

\* ------------------------------------------------------------------------
\* make_map: the point-cloud sanitizer (lines 380-391)
\* ------------------------------------------------------------------------

\* np.where(np.isnan(a)), the negation left out
WhereIsNaN(a) ==
  SelectSeq([j \in 1..Len(a) |-> j], LAMBDA j : IsNaN(a[j]))

\* np.where(np.logical_not(np.isnan(a))): the kept positions, increasing
WhereNotNaN(a) ==
  SelectSeq([j \in 1..Len(a) |-> j], LAMBDA j : ~IsNaN(a[j]))

\* a[idx] for an index array idx
Take(a, idx) == [m \in 1..Len(idx) |-> a[idx[m]]]

\* lines 380-391 on the flattened arrays; the result is <<X, Y, merge>>
Sanitize(X0, Y0, merge0) ==
  LET X1 == Take(X0, WhereNotNaN(Y0))
      m1 == Take(merge0, WhereNotNaN(Y0))
      Y1 == Take(Y0, WhereNotNaN(Y0))
      Y2 == Take(Y1, WhereNotNaN(X1))
      m2 == Take(m1, WhereNotNaN(X1))
      X2 == Take(X1, WhereNotNaN(X1))
      X3 == Take(X2, WhereNotNaN(m2))
      Y3 == Take(Y2, WhereNotNaN(m2))
      m3 == Take(m2, WhereNotNaN(m2))
  IN  <<X3, Y3, m3>>

\* ------------------------------------------------------------------------
\* make_map: the gridding engine (lines 400-419)
\* ------------------------------------------------------------------------

\* np.min / np.max of a non-empty array of finite values
SeqMin(a) == CHOOSE v \in {a[j][2] : j \in 1..Len(a)} :
               \A j \in 1..Len(a) : v <= a[j][2]

SeqMax(a) == CHOOSE v \in {a[j][2] : j \in 1..Len(a)} :
               \A j \in 1..Len(a) : v >= a[j][2]

\* np.arange(lo, hi, step): lo, lo+step, ... below hi
arange(lo, hi, step) ==
  [j \in 1..(IF hi > lo THEN (hi - lo + step - 1) \div step ELSE 0) |->
      lo + (j - 1) * step]

\* np.meshgrid(xa, ya): <<grid_x, grid_y>>, Len(ya) rows of Len(xa) cells
meshgrid(xa, ya) ==
  << [r \in 1..Len(ya) |-> [c \in 1..Len(xa) |-> xa[c]]],
     [r \in 1..Len(ya) |-> [c \in 1..Len(xa) |-> ya[r]]] >>

\* squared Euclidean distance between sample j and the point (gx, gy)
Dist2(Xs, Ys, j, gx, gy) ==
  (Xs[j][2] - gx) * (Xs[j][2] - gx) + (Ys[j][2] - gy) * (Ys[j][2] - gy)

\* cKDTree.query(.., k=1): the squared distance to the nearest sample
NearestDist2(Xs, Ys, gx, gy) ==
  CHOOSE v \in {Dist2(Xs, Ys, j, gx, gy) : j \in 1..Len(Xs)} :
    \A j \in 1..Len(Xs) : v <= Dist2(Xs, Ys, j, gx, gy)

\* the sample the nearest-neighbour search returns; between samples at the
\* same distance the tree's layout decides: "first" or "last" in the array
NearestIdx(Xs, Ys, gx, gy, pref) ==
  LET near == {j \in 1..Len(Xs) :
                 Dist2(Xs, Ys, j, gx, gy) = NearestDist2(Xs, Ys, gx, gy)}
  IN  IF pref = "first" THEN CHOOSE j \in near : \A i \in near : j <= i
      ELSE CHOOSE j \in near : \A i \in near : j >= i

\* griddata(points, merge, (grid_x, grid_y), method='nearest')
griddata(Xs, Ys, vals, gx, gy, pref) ==
  [r \in 1..Len(gx) |-> [c \in 1..Len(gx[r]) |->
      vals[NearestIdx(Xs, Ys, gx[r][c], gy[r][c], pref)]]]

\* dist of tree.query, reshaped to the grid (held squared)
querydist(Xs, Ys, gx, gy) ==
  [r \in 1..Len(gx) |-> [c \in 1..Len(gx[r]) |->
      NearestDist2(Xs, Ys, gx[r][c], gy[r][c])]]

\* np.floor(np.sqrt(1/res)) - 1, in metres; res is held in units
MaskThreshold(r) == ISqrt(UnitsPerMetre \div r) - 1

\* dist > np.floor(np.sqrt(1/res)) - 1, for the squared distance d2 in units
TooFar(d2, r) ==
  \/ MaskThreshold(r) < 0
  \/ d2 > (MaskThreshold(r) * UnitsPerMetre) * (MaskThreshold(r) * UnitsPerMetre)

\* lines 414-418: the three assignments of NaN to dat
MaskGrid(g, dst, r) ==
  [i \in 1..Len(g) |-> [c \in 1..Len(g[i]) |->
      LET v1 == IF TooFar(dst[i][c], r) THEN NaN ELSE g[i][c]
          v2 == IF v1 = Fin(0) THEN NaN ELSE v1
          v3 == IF IsInf(v2) THEN NaN ELSE v2
      IN  v3]]

\* np.ma.masked_invalid(dat): the mask of the NaN and infinite cells
masked_invalid(g) ==
  [i \in 1..Len(g) |-> [c \in 1..Len(g[i]) |-> IsNaN(g[i][c]) \/ IsInf(g[i][c])]]

\* ------------------------------------------------------------------------
\* State
\* ------------------------------------------------------------------------

VARIABLES
  pc,        \* the statement about to run
  inMap,     \* TRUE when make_map was called from map's loop over chunks
  e, n, t, d,            \* make_map's per-ping arguments
  dat_port, dat_star,    \* make_map's intensity matrices (rows of columns)
  pix_m, res, dogrid, p, \* make_map's scalar arguments
  merge,     \* the stacked matrix, then the filtered flat intensity array
  X, Y,      \* the flattened, then filtered, coordinates
  humlen,    \* the length of humlon and humlat
  grid_x, grid_y, dat, dist, datm,   \* the grid
  rawfile,   \* x_y_ss_raw<p>.asc: chunk index -> rows <<X, Y, merge>>
  pngs,      \* the chunks whose map<p>.png was saved
  kmls,      \* the chunks whose GroundOverlay<p>.kml was saved
  caught,    \* the chunks whose rendering raised and was caught
  raised,    \* the exception that ended the run, "" while none has
  calc_bearing, filt_bearing, cog,   \* map's switches
  meta,      \* the metadata store meta.mat: key -> row array
  port_fp, star_fp,      \* the memory-mapped scans: one matrix per chunk
  esi, nsi, dep_m, c,    \* map's squeezed metadata arrays
  bearing, theta, dist_tvg,          \* map's per-ping series
  warned,    \* TRUE once map printed its large-stdev warning
  rmf        \* runningMeanFast called on its own: its x, its N, the caller's array

mmArgs == <<e, n, t, d, dat_port, dat_star, pix_m, res, dogrid, p>>

mmLocals == <<merge, X, Y, humlen, grid_x, grid_y, dat, dist, datm>>

gridVars == <<grid_x, grid_y, dat, dist, datm>>

outputs == <<rawfile, pngs, kmls, caught>>

switches == <<calc_bearing, filt_bearing, cog>>

stores == <<meta, port_fp, star_fp>>

mapLocals == <<esi, nsi, dep_m, c, bearing, theta, dist_tvg>>

drvVars == <<inMap, rmf, switches, stores, mapLocals, warned>>

vars == <<pc, raised, mmArgs, mmLocals, outputs, drvVars>>

\* ------------------------------------------------------------------------
\* make_map: the steps
\* ------------------------------------------------------------------------

\* extent = int(np.shape(merge)[0]/2)
extentOf(m) == Len(m) \div 2

\* lines 343-378: stack and clean the intensities, compute every ping's line
\* and flatten the coordinates
PointCloud ==
  /\ pc = "make_map"
  /\ LET m == TruncCols(ZeroNaN(vstack(dat_port, dat_star)), Len(n))
         extent == extentOf(m)
         yvec == yvecOf(pix_m, extent)
         Xl == [k \in 1..Len(n) |-> BeamLine(e[k], n[k], t[k], d[k], yvec, extent)[1]]
         Yl == [k \in 1..Len(n) |-> BeamLine(e[k], n[k], t[k], d[k], yvec, extent)[2]]
     IN  IF Len(n) = 0
         THEN \* line 370: del x, y of names the loop never bound
              /\ merge' = m
              /\ UNCHANGED <<X, Y>>
              /\ raised' = "NameError: x"
              /\ pc' = "error"
         ELSE /\ merge' = m
              /\ X' = TransposeFlatten(Xl, 2 * extent, Len(n))
              /\ Y' = TransposeFlatten(Yl, 2 * extent, Len(n))
              /\ raised' = raised
              /\ pc' = "sanitize"
  /\ UNCHANGED <<mmArgs, humlen, gridVars, outputs, drvVars>>

\* lines 380-391
SanitizeCloud ==
  /\ pc = "sanitize"
  /\ LET s == Sanitize(X, Y, flatten(merge))
     IN  /\ X' = s[1]
         /\ Y' = s[2]
         /\ merge' = s[3]
  /\ pc' = "write"
  /\ UNCHANGED <<raised, mmArgs, humlen, gridVars, outputs, drvVars>>

\* lines 393-398: np.savetxt with "%8.6f %8.6f %8.6f" prints one row per
\* sample; a fixed-point value, 'nan' and 'inf' each print as themselves.
\* trans(X, Y, inverse=True) returns one longitude and latitude per sample.
WriteRaw ==
  /\ pc = "write"
  /\ rawfile' = [q \in DOMAIN rawfile \cup {p} |->
                   IF q = p THEN [j \in 1..Len(X) |-> <<X[j], Y[j], merge[j]>>]
                   ELSE rawfile[q]]
  /\ humlen' = Len(X)
  /\ pc' = IF dogrid = 1 THEN "grid" ELSE "render"
  /\ UNCHANGED <<raised, mmArgs, merge, X, Y, gridVars, pngs, kmls, caught, drvVars>>

\* lines 400-410 when dogrid==1: np.min of an empty array raises ValueError
Grid ==
  /\ pc = "grid"
  /\ IF Len(X) = 0
     THEN /\ pc' = "error"
          /\ raised' = "ValueError"
          /\ UNCHANGED gridVars
     ELSE \E pref \in {"first", "last"} :
            LET g == meshgrid(arange(SeqMin(X), SeqMax(X), res),
                              arange(SeqMin(Y), SeqMax(Y), res))
            IN  /\ grid_x' = g[1]
                /\ grid_y' = g[2]
                /\ dat' = griddata(X, Y, merge, g[1], g[2], pref)
                /\ dist' = querydist(X, Y, g[1], g[2])
                /\ datm' = datm
                /\ raised' = raised
                /\ pc' = "mask"
  /\ UNCHANGED <<mmArgs, merge, X, Y, humlen, outputs, drvVars>>

\* lines 412-422 when dogrid==1
Mask ==
  /\ pc = "mask"
  /\ dat' = MaskGrid(dat, dist, res)
  /\ datm' = masked_invalid(MaskGrid(dat, dist, res))
  /\ pc' = "render"
  /\ UNCHANGED <<raised, mmArgs, merge, X, Y, humlen, grid_x, grid_y, dist, outputs, drvVars>>

\* what makes the try block of lines 424-448 raise whatever the renderer
\* does: np.min(humlon) of no sample, np.nanmin(dat) of no cell
RenderMustFail ==
  \/ humlen = 0
  \/ dogrid = 1 /\ (Len(dat) = 0 \/ Len(dat[1]) = 0)

\* lines 424-451: the rendering, and the bare except around it.  Basemap,
\* pcolormesh, scatter and savefig are collaborators that may raise.
Render ==
  /\ pc = "render"
  /\ \E ok \in BOOLEAN :
       /\ ok => ~RenderMustFail
       /\ pngs' = IF ok THEN pngs \cup {p} ELSE pngs
       /\ caught' = IF ok THEN caught ELSE caught \cup {p}
  /\ pc' = "kml"
  /\ UNCHANGED <<raised, mmArgs, mmLocals, rawfile, kmls, drvVars>>

\* lines 453-464: np.min(humlat) of no sample raises ValueError, outside
\* the try block.  A call made by map returns to the for statement of line
\* 311, which binds the next chunk index.
Kml ==
  /\ pc = "kml"
  /\ IF humlen = 0
     THEN /\ pc' = "error"
          /\ raised' = "ValueError"
          /\ kmls' = kmls
          /\ p' = p
     ELSE /\ pc' = IF inMap THEN "loop" ELSE "returned"
          /\ raised' = raised
          /\ kmls' = kmls \cup {p}
          /\ p' = IF inMap THEN p + 1 ELSE p
  /\ UNCHANGED <<e, n, t, d, dat_port, dat_star, pix_m, res, dogrid>>
  /\ UNCHANGED <<mmLocals, rawfile, pngs, caught, drvVars>>

\* ------------------------------------------------------------------------
\* The arguments of one call of make_map
\* ------------------------------------------------------------------------

\* pings with finite position, heading and ground range
FinPings ==
  { [e |-> Fin(0), n |-> Fin(0), t |-> Fin(0), d |-> Fin(3)],
    [e |-> Fin(3), n |-> Fin(1), t |-> Fin(90), d |-> Fin(7)],
    [e |-> Fin(0), n |-> Fin(2), t |-> Fin(180), d |-> Fin(5)],
    [e |-> Fin(3), n |-> Fin(0), t |-> Fin(270), d |-> Fin(-12)] }

NonFinite == {NaN, PInf, NInf}

\* pings with one field that is NaN or infinite
OddPings ==
  LET b == [e |-> Fin(0), n |-> Fin(0), t |-> Fin(0), d |-> Fin(3)]
  IN  UNION { { [b EXCEPT !.e = v], [b EXCEPT !.n = v],
                [b EXCEPT !.t = v], [b EXCEPT !.d = v] } : v \in NonFinite }

\* the ping sequences of a chunk: only the first ping may be odd
ChunkPings ==
  UNION { { s \in [1..len -> FinPings \cup OddPings] :
              \A k \in 2..len : s[k] \in FinPings }
          : len \in 1..NPings }

\* an intensity matrix of one channel: every cell its own value
BaseDat(rowOffset) ==
  [r \in 1..Extent |-> [col \in 1..NPings |-> Fin(10 * (rowOffset + r) + col)]]

\* the intensity pairs <<dat_port, dat_star>>: at most one cell, in the first
\* row of a channel, holds NaN, an infinity or 0
DatPairs ==
  {<<BaseDat(0), BaseDat(Extent)>>}
  \cup { <<[BaseDat(0) EXCEPT ![1][1] = v], BaseDat(Extent)>> :
           v \in NonFinite \cup {Fin(0)} }
  \cup { <<BaseDat(0), [BaseDat(Extent) EXCEPT ![1][1] = v]>> :
           v \in NonFinite \cup {Fin(0)} }

\* the pixel sizes, in units
PixVals == {5}

\* the grid resolutions, in units: 0.25 m, 1 m and 2 m
ResVals == {4, 16, 32}

\* <<dogrid, res>>: the point cloud alone, or a grid at one of the resolutions
GridModes == {<<0, 4>>} \cup {<<1, r>> : r \in ResVals}

InitLocals ==
  /\ merge = << >>
  /\ X = << >>
  /\ Y = << >>
  /\ humlen = 0
  /\ grid_x = << >>
  /\ grid_y = << >>
  /\ dat = << >>
  /\ dist = << >>
  /\ datm = << >>

InitOutputs ==
  /\ rawfile = << >>
  /\ pngs = {}
  /\ kmls = {}
  /\ caught = {}
  /\ raised = ""

\* a name of map that no statement has bound yet
Unbound == [ndim |-> -1, v |-> << >>]

\* runningMeanFast has not been called on its own
NoCall == [x |-> << >>, N |-> 0, arg |-> << >>]

\* map is not running: make_map is called on its own
NoDriver ==
  /\ inMap = FALSE
  /\ calc_bearing = 0
  /\ filt_bearing = 0
  /\ cog = 0
  /\ meta = << >>
  /\ port_fp = << >>
  /\ star_fp = << >>
  /\ esi = Unbound
  /\ nsi = Unbound
  /\ dep_m = Unbound
  /\ c = 0
  /\ bearing = Unbound
  /\ theta = Unbound
  /\ dist_tvg = Unbound
  /\ warned = FALSE

\* one call of make_map on arguments drawn from the sets above
InitMakeMap ==
  /\ pc = "make_map"
  /\ NoDriver
  /\ rmf = NoCall
  /\ \E s \in ChunkPings :
       /\ e = [k \in 1..Len(s) |-> s[k].e]
       /\ n = [k \in 1..Len(s) |-> s[k].n]
       /\ t = [k \in 1..Len(s) |-> s[k].t]
       /\ d = [k \in 1..Len(s) |-> s[k].d]
  /\ \E dp \in DatPairs :
       /\ dat_port = dp[1]
       /\ dat_star = dp[2]
  /\ pix_m \in PixVals
  /\ \E g \in GridModes :
       /\ dogrid = g[1]
       /\ res = g[2]
  /\ p = 0
  /\ InitLocals
  /\ InitOutputs

NextMakeMap ==
  \/ PointCloud
  \/ SanitizeCloud
  \/ WriteRaw
  \/ Grid
  \/ Mask
  \/ Render
  \/ Kml

SpecMakeMap == InitMakeMap /\ [][NextMakeMap]_vars

\* ------------------------------------------------------------------------
\* map: the series it computes once per survey (lines 231-309)
\*
\* A heading, a latitude and a longitude are whole degrees, an easting, a
\* northing and a depth whole units: the squeezed metadata series hold plain
\* integers, which map hands to make_map as finite numbers.
\* ------------------------------------------------------------------------

\* the number of chunks of a survey
NChunks == 2

\* np.squeeze of a 1 x N row: a row of one entry collapses to a 0-d array,
\* which has no len() and cannot be sliced
squeeze(a) ==
  IF Len(a) = 1 THEN [ndim |-> 0, v |-> a[1]] ELSE [ndim |-> 1, v |-> a]

\* np.cos and np.sin of whole multiples of 90 degrees
ICos(deg) == FCos(Fin(deg))[2]

ISin(deg) == FSin(Fin(deg))[2]

\* np.arctan2(y, x) in degrees; y and x are products of the cosines and
\* sines above, so each is -1, 0 or 1
arctan2(y, x) ==
  CASE y = 0 /\ x >= 0 -> 0
    [] y = 0 /\ x < 0 -> 180
    [] y > 0 /\ x = 0 -> 90
    [] y < 0 /\ x = 0 -> -90
    [] y > 0 /\ x > 0 -> 45
    [] y > 0 /\ x < 0 -> 135
    [] y < 0 /\ x > 0 -> -45
    [] y < 0 /\ x < 0 -> -135

\* lines 327-336
bearingBetweenPoints(pos1_lat, pos2_lat, pos1_lon, pos2_lon) ==
  LET lat1 == pos1_lat
      lon1 == pos1_lon
      lat2 == pos2_lat
      lon2 == pos2_lon
      db == arctan2(ICos(lat1) * ISin(lat2)
                      - ISin(lat1) * ICos(lat2) * ICos(lon2 - lon1),
                    ISin(lon2 - lon1) * ICos(lat2))
  IN  (90 - db + 360) % 360

\* lines 245-247: np.zeros(len(lat)), then one bearing per pair of fixes
PointToPoint(lat, lon) ==
  [k \in 1..Len(lat) |->
     IF k < Len(lat)
     THEN bearingBetweenPoints(lat[k], lat[k + 1], lon[k], lon[k + 1])
     ELSE 0]

RECURSIVE SumTo(_, _)
SumTo(a, j) == IF j = 0 THEN 0 ELSE a[j] + SumTo(a, j - 1)

\* a test that is also true of a standard deviation equal to lim
StdAtLeast(a, lim) ==
  LET L == Len(a)
      s == SumTo(a, L)
      q == SumTo([j \in 1..L |-> a[j] * a[j]], L)
  IN  L * q - s * s >= lim * lim * L * L

\* np.std(a) > lim for the population standard deviation:
\* sqrt(mean(a^2) - mean(a)^2) > lim, cleared of the root and the divisions
StdAbove(a, lim) ==
  LET L == Len(a)
      s == SumTo(a, L)
      q == SumTo([j \in 1..L |-> a[j] * a[j]], L)
  IN  L * q - s * s > lim * lim * L * L

\* MiniBatchKMeans(2).fit(...).labels_ on a one-dimensional series: the two
\* clusters are the values up to a cut and the values above it; which cut the
\* randomly seeded fit settles on, and which cluster it calls 0, is open
KMeansLabels(a) ==
  { [j \in 1..Len(a) |-> IF a[j] <= cut THEN low ELSE 1 - low] :
      cut \in {a[j] : j \in 1..Len(a)}, low \in {0, 1} }

\* np.interp(q, xp, fp) at index q, the samples being the indices in keep:
\* linear between the neighbours, the end value outside them; the
\* interpolated heading is rounded down to a whole degree
interp(q, keep, a) ==
  LET below == {j \in keep : j < q}
      above == {j \in keep : j > q}
      lo == CHOOSE j \in below : \A i \in below : i <= j
      hi == CHOOSE j \in above : \A i \in above : i >= j
  IN  IF below = {} THEN a[hi]
      ELSE IF above = {} THEN a[lo]
      ELSE a[lo] + ((a[hi] - a[lo]) * (q - lo)) \div (hi - lo)

\* lines 268-274: the smaller cluster (cluster 0 on a tie) becomes NaN and is
\* filled by interpolation over the index axis (nan_helper, np.interp)
FillMinority(a, labels) ==
  LET n0 == Cardinality({j \in 1..Len(a) : labels[j] = 0})
      n1 == Cardinality({j \in 1..Len(a) : labels[j] = 1})
      drop == IF n0 > n1 THEN 1 ELSE 0
      keep == {j \in 1..Len(a) : labels[j] # drop}
  IN  [j \in 1..Len(a) |-> IF j \in keep THEN a[j] ELSE interp(j, keep, a)]

\* pyhum_utils.runningMeanFast, line 106: the full convolution with N
\* weights 1/N, cut to len(x) entries from index N-1 on, is the mean of the N
\* samples from each index on, the samples past the end counting 0.  A mean
\* is rounded down to a whole degree.
MovingMean(x, N) ==
  LET L == Len(x)
      hiOf(j) == IF j + N - 1 < L THEN j + N - 1 ELSE L
  IN  [j \in 1..L |-> (SumTo(x, hiOf(j)) - SumTo(x, j - 1)) \div N]

\* a tail set to the entry before it, at index -N-1 (the first entry when
\* the tail is the whole array)
ClampTailBefore(r, N) ==
  [j \in 1..Len(r) |->
     IF j > Len(r) - N THEN r[IF Len(r) > N THEN Len(r) - N ELSE 1] ELSE r[j]]

\* line 108, x[-N:] = x[-N]: the last N entries are set to the entry at
\* index -N, the first of them
ClampTail(r, N) ==
  [j \in 1..Len(r) |-> IF j > Len(r) - N THEN r[Len(r) - N + 1] ELSE r[j]]

\* lines 102-109
runningMeanFast(x, N) == ClampTail(MovingMean(x, N), N)

\* np.unwrap of a series in degrees: the correction of one step dd
UnwrapCorrection(dd) ==
  LET ddmod0 == ((dd + 180) % 360) - 180
      ddmod == IF ddmod0 = -180 /\ dd > 0 THEN 180 ELSE ddmod0
      mag == IF dd < 0 THEN -dd ELSE dd
  IN  IF mag < 180 THEN 0 ELSE ddmod - dd

RECURSIVE CumCorrection(_, _)
CumCorrection(a, j) ==
  IF j <= 1 THEN 0
  ELSE UnwrapCorrection(a[j] - a[j - 1]) + CumCorrection(a, j - 1)

unwrap(a) == [j \in 1..Len(a) |-> a[j] + CumCorrection(a, j)]

\* line 309: tan(25 degrees), in parts of ten thousand
Tan25 == 4663

\* line 306: 8.5e-5 + 3/76923 + 8.5e-5/4 under true division, in parts of a
\* hundred million
TvgCoefficient == 14525

\* lines 306-309 for one ping: tan(25)*dep_m - tvg, each product rounded
\* down to a whole unit; dep in units, speed in metres per second
DistTvg(dep, speed) ==
  (Tan25 * dep) \div 10000
    - (TvgCoefficient * speed * UnitsPerMetre) \div 100000000

\* a[lo:hi] of a one-dimensional array, lo and hi counted from 0
Slice(a, lo, hi) ==
  LET top == IF hi < Len(a) THEN hi ELSE Len(a)
  IN  IF lo >= top THEN << >> ELSE SubSeq(a, lo + 1, top)

\* ------------------------------------------------------------------------
\* map: the steps (lines 222-312)
\* ------------------------------------------------------------------------

\* lines 231-236
LoadMeta ==
  /\ pc = "map"
  /\ esi' = squeeze(meta["e"])
  /\ nsi' = squeeze(meta["n"])
  /\ pix_m' = squeeze(meta["pix_m"]).v
  /\ dep_m' = squeeze(meta["dep_m"])
  /\ c' = squeeze(meta["c"]).v
  /\ pc' = "bearing"
  /\ UNCHANGED <<raised, e, n, t, d, dat_port, dat_star, res, dogrid, p>>
  /\ UNCHANGED <<mmLocals, outputs, inMap, rmf, switches, stores, warned>>
  /\ UNCHANGED <<bearing, theta, dist_tvg>>

\* lines 238-251: len() of a 0-d array raises TypeError
EstimateBearing ==
  /\ pc = "bearing"
  /\ LET lat == squeeze(meta["lat"])
         lon == squeeze(meta["lon"])
     IN  IF calc_bearing = 1
         THEN IF lat.ndim = 0
              THEN /\ raised' = "TypeError"
                   /\ pc' = "error"
                   /\ bearing' = bearing
              ELSE /\ bearing' = [ndim |-> 1, v |-> PointToPoint(lat.v, lon.v)]
                   /\ raised' = raised
                   /\ pc' = "denoise"
         ELSE /\ bearing' = squeeze(meta["heading"])
              /\ raised' = raised
              /\ pc' = "denoise"
  /\ UNCHANGED <<mmArgs, mmLocals, outputs, inMap, rmf, switches, stores, warned>>
  /\ UNCHANGED <<esi, nsi, dep_m, c, theta, dist_tvg>>

\* line 256: np.std of a 0-d array is 0
LargeStd == bearing.ndim = 1 /\ StdAbove(bearing.v, 180)

\* lines 256-280: savemat is a name the module never imports (lines 58-84
\* import loadmat alone), so line 279 raises NameError before meta.mat is
\* rewritten
Denoise ==
  /\ pc = "denoise"
  /\ IF LargeStd
     THEN \E labels \in KMeansLabels(bearing.v) :
            /\ warned' = TRUE
            /\ bearing' = [ndim |-> 1, v |-> FillMinority(bearing.v, labels)]
            /\ meta' = meta
            /\ raised' = "NameError: savemat"
            /\ pc' = "error"
     ELSE /\ pc' = "filt"
          /\ UNCHANGED <<warned, bearing, meta, raised>>
  /\ UNCHANGED <<mmArgs, mmLocals, outputs, inMap, rmf, switches, port_fp, star_fp>>
  /\ UNCHANGED <<esi, nsi, dep_m, c, theta, dist_tvg>>

\* lines 282-283: len(bearing)/100 is a true division (line 58); np.ones
\* cuts the window to a whole number, and np.convolve refuses an empty one.
\* The window is whole as it stands when the length is a multiple of 100.
FiltBearing ==
  /\ pc = "filt"
  /\ IF filt_bearing = 1
     THEN IF bearing.ndim = 0
          THEN /\ raised' = "TypeError: len(bearing)"
               /\ pc' = "error"
               /\ bearing' = bearing
          ELSE IF Len(bearing.v) \div 100 = 0
          THEN /\ raised' = "ValueError: convolve"
               /\ pc' = "error"
               /\ bearing' = bearing
          ELSE /\ bearing' = [ndim |-> 1, v |->
                                runningMeanFast(bearing.v, Len(bearing.v) \div 100)]
               /\ raised' = raised
               /\ pc' = "theta"
     ELSE /\ pc' = "theta"
          /\ UNCHANGED <<bearing, raised>>
  /\ UNCHANGED <<mmArgs, mmLocals, outputs, inMap, rmf, switches, stores, warned>>
  /\ UNCHANGED <<esi, nsi, dep_m, c, theta, dist_tvg>>

\* lines 285-294: theta keeps the heading in degrees where the code holds
\* radians; np.unwrap takes differences along the last axis, which a 0-d
\* array does not have
Heading ==
  /\ pc = "theta"
  /\ IF cog = 1
     THEN IF bearing.ndim = 0
          THEN /\ raised' = "IndexError"
               /\ pc' = "error"
               /\ theta' = theta
          ELSE /\ theta' = [ndim |-> 1, v |->
                              unwrap([j \in 1..Len(bearing.v) |->
                                        -(bearing.v[j] - 90)])]
               /\ raised' = raised
               /\ pc' = "range"
     ELSE /\ theta' = bearing
          /\ raised' = raised
          /\ pc' = "range"
  /\ UNCHANGED <<mmArgs, mmLocals, outputs, inMap, rmf, switches, stores, warned>>
  /\ UNCHANGED <<esi, nsi, dep_m, c, bearing, dist_tvg>>

\* lines 296-309, and the first binding of p by the for statement of line 311
RangeCorrection ==
  /\ pc = "range"
  /\ dist_tvg' = IF dep_m.ndim = 0
                 THEN [ndim |-> 0, v |-> DistTvg(dep_m.v, c)]
                 ELSE [ndim |-> 1, v |->
                         [j \in 1..Len(dep_m.v) |-> DistTvg(dep_m.v[j], c)]]
  /\ p' = 0
  /\ pc' = "loop"
  /\ UNCHANGED <<raised, e, n, t, d, dat_port, dat_star, pix_m, res, dogrid>>
  /\ UNCHANGED <<mmLocals, outputs, inMap, rmf, switches, stores, warned>>
  /\ UNCHANGED <<esi, nsi, dep_m, c, bearing, theta>>

\* shape_port[-1]
ChunkWidth == meta["shape_port"][Len(meta["shape_port"])]

\* lines 311-312: the next chunk's slices are cut and make_map is called, or
\* the loop is over; a 0-d array cannot be sliced
NextChunk ==
  /\ pc = "loop"
  /\ IF p >= Len(star_fp)
     THEN /\ pc' = "done"
          /\ UNCHANGED <<raised, e, n, t, d, dat_port, dat_star, mmLocals>>
     ELSE IF esi.ndim = 0
     THEN /\ raised' = "IndexError"
          /\ pc' = "error"
          /\ UNCHANGED <<e, n, t, d, dat_port, dat_star, mmLocals>>
     ELSE LET lo == ChunkWidth * p
              hi == ChunkWidth * (p + 1)
              fin(a) == [k \in 1..Len(a) |-> Fin(a[k])]
          IN  /\ e' = fin(Slice(esi.v, lo, hi))
              /\ n' = fin(Slice(nsi.v, lo, hi))
              /\ t' = fin(Slice(theta.v, lo, hi))
              /\ d' = fin(Slice(dist_tvg.v, lo, hi))
              /\ dat_port' = port_fp[p + 1]
              /\ dat_star' = star_fp[p + 1]
              /\ merge' = << >>
              /\ X' = << >>
              /\ Y' = << >>
              /\ humlen' = 0
              /\ grid_x' = << >>
              /\ grid_y' = << >>
              /\ dat' = << >>
              /\ dist' = << >>
              /\ datm' = << >>
              /\ raised' = raised
              /\ pc' = "make_map"
  /\ UNCHANGED <<pix_m, res, dogrid, p, outputs, drvVars>>

\* ------------------------------------------------------------------------
\* The surveys map is run on
\* ------------------------------------------------------------------------

\* <<chunks, pings per chunk, pings of the survey>>: a survey of one ping,
\* full chunks, and a last chunk one ping short
Shapes ==
  { <<1, 1, 1>>,
    <<NChunks, NPings, NChunks * NPings>>,
    <<NChunks, NPings, NChunks * NPings - 1>> }

\* the scan of chunk q of one channel: every cell its own value
ChunkDat(q, rowOffset, W) ==
  [r \in 1..Extent |->
     [col \in 1..W |-> Fin(100 * q + 10 * (rowOffset + r) + col)]]

\* depths, in units: 1 m, and water deeper than the farthest range bin
ShallowDepth == UnitsPerMetre

DeepDepth == Extent * UnitsPerMetre

\* the depth series: shallow water, but for at most one chunk of deep water
DepthSeqs(P, W, L) ==
  { [k \in 1..L |-> IF (k - 1) \div W = q THEN DeepDepth ELSE ShallowDepth] :
      q \in 0..P }

\* the recorded headings: a steady course or a steady turn, and at most one
\* sample that is 180 degrees off or wild; and a compass that flips between
\* the two ends of its range, 0 and 360
HeadingSeqs(L) ==
  LET steady == [k \in 1..L |-> 0]
      turn == [k \in 1..L |-> (90 * (k - 1)) % 360]
      flip == [k \in 1..L |-> 360 * ((k - 1) % 2)]
      odd(b) == UNION { { [b EXCEPT ![j] = b[j] + 180],
                          [b EXCEPT ![j] = 1080] } : j \in 1..L }
  IN  UNION { {b} \cup odd(b) : b \in {steady, turn} } \cup {flip}

\* fixes <<latitude, longitude>> a quarter turn of the globe apart
Fixes == << <<0, 0>>, <<0, 90>>, <<90, 0>>, <<0, 270>> >>

\* the tracks: from a fix, stepping through the fixes at a fixed stride
Tracks(L) ==
  { [k \in 1..L |-> Fixes[((s + (k - 1) * step) % Len(Fixes)) + 1]] :
      s \in 1..Len(Fixes), step \in 0..(Len(Fixes) - 1) }

\* the speed of sound, in metres per second
SoundSpeed == 1500

\* <<dogrid, res>> of a run of map
MapGridModes == {<<0, 4>>, <<1, 4>>}

\* the metadata store of a survey
MetaOf(P, W, L, deps, heads, track) ==
  [key \in {"e", "n", "lat", "lon", "heading", "pix_m", "dep_m", "c",
            "shape_port", "shape_star"} |->
     CASE key = "e" -> [k \in 1..L |-> 0]
       [] key = "n" -> [k \in 1..L |-> 2 * k]
       [] key = "lat" -> [k \in 1..L |-> track[k][1]]
       [] key = "lon" -> [k \in 1..L |-> track[k][2]]
       [] key = "heading" -> heads
       [] key = "pix_m" -> <<5>>
       [] key = "dep_m" -> deps
       [] key = "c" -> <<SoundSpeed>>
       [] key = "shape_port" -> <<P, Extent, W>>
       [] key = "shape_star" -> <<P, Extent, W>>]

\* map is called: nothing is bound yet but its arguments and the files.  The
\* headings vary when they are used, the fixes when they are.
InitMap ==
  /\ pc = "map"
  /\ inMap = TRUE
  /\ rmf = NoCall
  /\ calc_bearing \in {0, 1}
  /\ filt_bearing \in {0, 1}
  /\ cog \in {0, 1}
  /\ \E g \in MapGridModes :
       /\ dogrid = g[1]
       /\ res = g[2]
  /\ \E sh \in Shapes :
       /\ \E deps \in DepthSeqs(sh[1], sh[2], sh[3]) :
          \E heads \in HeadingSeqs(sh[3]) :
          \E track \in Tracks(sh[3]) :
            /\ calc_bearing = 1 => heads = [k \in 1..sh[3] |-> 0]
            /\ calc_bearing = 0 => track = [k \in 1..sh[3] |-> Fixes[1]]
            /\ meta = MetaOf(sh[1], sh[2], sh[3], deps, heads, track)
       /\ port_fp = [q \in 1..sh[1] |-> ChunkDat(q, 0, sh[2])]
       /\ star_fp = [q \in 1..sh[1] |-> ChunkDat(q, Extent, sh[2])]
  /\ e = << >>
  /\ n = << >>
  /\ t = << >>
  /\ d = << >>
  /\ dat_port = << >>
  /\ dat_star = << >>
  /\ pix_m = 0
  /\ p = 0
  /\ esi = Unbound
  /\ nsi = Unbound
  /\ dep_m = Unbound
  /\ c = 0
  /\ bearing = Unbound
  /\ theta = Unbound
  /\ dist_tvg = Unbound
  /\ warned = FALSE
  /\ InitLocals
  /\ InitOutputs

NextMap ==
  \/ LoadMeta
  \/ EstimateBearing
  \/ Denoise
  \/ FiltBearing
  \/ Heading
  \/ RangeCorrection
  \/ NextChunk
  \/ PointCloud
  \/ SanitizeCloud
  \/ WriteRaw
  \/ Grid
  \/ Mask
  \/ Render
  \/ Kml

SpecMap == InitMap /\ [][NextMap]_vars

\* ------------------------------------------------------------------------
\* pyhum_utils.runningMeanFast called on its own (lines 102-109)
\* ------------------------------------------------------------------------

\* the longest series
MaxSeries == 4

\* the samples of a series: every mean of up to four of them is whole
SeriesVals == {0, 12, 24}

Series == UNION { [1..len -> SeriesVals] : len \in 1..MaxSeries }

\* line 106: x is bound to a new array, the caller's array is as it was
Convolve ==
  /\ pc = "runningMeanFast"
  /\ rmf' = [rmf EXCEPT !.x = MovingMean(rmf.x, rmf.N)]
  /\ pc' = "clamp"
  /\ UNCHANGED <<raised, mmArgs, mmLocals, outputs, inMap, switches, stores, mapLocals, warned>>

\* lines 108-109
Clamp ==
  /\ pc = "clamp"
  /\ rmf' = [rmf EXCEPT !.x = ClampTail(rmf.x, rmf.N)]
  /\ pc' = "returned"
  /\ UNCHANGED <<raised, mmArgs, mmLocals, outputs, inMap, switches, stores, mapLocals, warned>>

\* runningMeanFast is called on a series and a window no longer than it
InitRunningMean ==
  /\ pc = "runningMeanFast"
  /\ \E s \in Series : \E w \in 1..Len(s) :
       rmf = [x |-> s, N |-> w, arg |-> s]
  /\ NoDriver
  /\ e = << >>
  /\ n = << >>
  /\ t = << >>
  /\ d = << >>
  /\ dat_port = << >>
  /\ dat_star = << >>
  /\ pix_m = 0
  /\ res = 0
  /\ dogrid = 0
  /\ p = 0
  /\ InitLocals
  /\ InitOutputs

NextRunningMean ==
  \/ Convolve
  \/ Clamp

SpecRunningMean == InitRunningMean /\ [][NextRunningMean]_vars

\* ------------------------------------------------------------------------
\* Vocabulary of the properties of make_map
\* ------------------------------------------------------------------------

\* the statements of make_map that follow the sanitizer
AfterSanitize == pc \in {"write", "grid", "mask", "render", "kml"}

\* the chunk's raw-point file has been written by the running call
CloudWritten ==
  /\ pc \in {"grid", "mask", "render", "kml", "returned", "error"}
  /\ p \in DOMAIN rawfile

\* the samples of the chunk: row i of the stacked matrix, ping k
Samples == (1..(2 * Len(dat_port))) \X (1..Len(n))

\* the range bin of row i: rows 1..extent are port, the others starboard
Bin(i) == IF i <= Len(dat_port) THEN i ELSE i - Len(dat_port)

\* the position of sample (i, k) in the flattened arrays
Pos(i, k) == (i - 1) * Len(n) + k

\* yvec[i]^2 for the bin of row i
Yvec2(i) ==
  yvecOf(pix_m, Len(dat_port))[Bin(i)] * yvecOf(pix_m, Len(dat_port))[Bin(i)]

InsideRange(i, k) == IsFin(d[k]) /\ Yvec2(i) < d[k][2] * d[k][2]

OutsideRange(i, k) == IsFin(d[k]) /\ Yvec2(i) >= d[k][2] * d[k][2]

FinitePing(k) == IsFin(e[k]) /\ IsFin(n[k]) /\ IsFin(t[k]) /\ IsFin(d[k])

\* sqrt(yvec[i]^2 - d[k]^2) of a sample outside the ground range
RangeDist(i, k) == ISqrt(Yvec2(i) - d[k][2] * d[k][2])

\* the intensity of cell (i, k) of the stacked port/starboard input
SrcCell(i, k) ==
  IF i <= Len(dat_port) THEN dat_port[i][k] ELSE dat_star[i - Len(dat_port)][k]

\* the same cell of the array merge (line 346 stores 0 for NaN)
MergedCell(i, k) == IF IsNaN(SrcCell(i, k)) THEN Fin(0) ELSE SrcCell(i, k)

\* the coordinates the loop over k computes for sample (i, k)
CoordX(i, k) ==
  BeamLine(e[k], n[k], t[k], d[k], yvecOf(pix_m, Len(dat_port)), Len(dat_port))[1][i]

CoordY(i, k) ==
  BeamLine(e[k], n[k], t[k], d[k], yvecOf(pix_m, Len(dat_port)), Len(dat_port))[2][i]

SrcTriple(i, k) == <<CoordX(i, k), CoordY(i, k), MergedCell(i, k)>>

\* the triples of all samples in the order of the flattened arrays
SrcSeq ==
  [j \in 1..(2 * Len(dat_port) * Len(n)) |->
      SrcTriple(((j - 1) \div Len(n)) + 1, ((j - 1) % Len(n)) + 1)]

\* the triples <<X, Y, merge>> held after the sanitizer
CloudSeq == [m \in 1..Len(X) |-> <<X[m], Y[m], merge[m]>>]

\* the triple tr is a row of rows
RowOf(rows, tr) == \E m \in 1..Len(rows) : rows[m] = tr

\* sample (i, k) is a row of the written file
Present(i, k) == RowOf(rawfile[p], SrcTriple(i, k))

\* ------------------------------------------------------------------------
\* C1
\* ------------------------------------------------------------------------

\* C1 as stated: for a ping with heading 0 and finite position, and a sample
\* with yvec^2 >= d^2, the flattened Y is n + sqrt(yvec^2 - d^2) in the first
\* half and n - sqrt(yvec^2 - d^2) in the second half, whatever d is
C1_Original ==
  pc = "sanitize" =>
    \A s \in Samples :
      LET i == s[1]
          k == s[2]
      IN  (t[k] = Fin(0) /\ IsFin(e[k]) /\ IsFin(n[k]) /\ OutsideRange(i, k)) =>
            Y[Pos(i, k)] = Fin(n[k][2] + (IF i <= Len(dat_port) THEN 1 ELSE -1)
                                            * RangeDist(i, k))

\* C1 (amended): for a ping with heading 0 and finite position, and a sample
\* with yvec^2 >= d^2, the flattened Y is n + d + sqrt(yvec^2 - d^2) in the
\* first half and n + d - sqrt(yvec^2 - d^2) in the second half (calc_beam_pos
\* adds d*cos(0) = d), and the flattened X is e
C1_Amended ==
  pc = "sanitize" =>
    \A s \in Samples :
      LET i == s[1]
          k == s[2]
      IN  (t[k] = Fin(0) /\ IsFin(e[k]) /\ IsFin(n[k]) /\ OutsideRange(i, k)) =>
            /\ Y[Pos(i, k)] = Fin(n[k][2] + d[k][2]
                                   + (IF i <= Len(dat_port) THEN 1 ELSE -1)
                                     * RangeDist(i, k))
            /\ X[Pos(i, k)] = e[k]

\* a ping with heading 0 and a ground range that is not 0 has been laid out
C1_Witness ==
  /\ pc = "sanitize"
  /\ \E s \in Samples :
       /\ t[s[2]] = Fin(0) /\ IsFin(e[s[2]]) /\ IsFin(n[s[2]])
       /\ OutsideRange(s[1], s[2])
       /\ d[s[2]] # Fin(0)
       /\ RangeDist(s[1], s[2]) > 0

\* ------------------------------------------------------------------------
\* C2
\* ------------------------------------------------------------------------

\* C2: before the sanitizer X, Y and the flattened merge have 2*extent*N
\* entries and entry (i-1)*N + k of each belongs to sample (i, k); after the
\* sanitizer the three arrays have one length and every triple left is the
\* coordinates of some sample (i, k) with the merge value of that cell (i, k)
C2_Aligned ==
  /\ pc = "sanitize" =>
       /\ Len(X) = 2 * Len(dat_port) * Len(n)
       /\ Len(Y) = 2 * Len(dat_port) * Len(n)
       /\ Len(flatten(merge)) = 2 * Len(dat_port) * Len(n)
       /\ \A s \in Samples :
            /\ X[Pos(s[1], s[2])] = CoordX(s[1], s[2])
            /\ Y[Pos(s[1], s[2])] = CoordY(s[1], s[2])
            /\ flatten(merge)[Pos(s[1], s[2])] = MergedCell(s[1], s[2])
  /\ pc = "write" =>
       /\ Len(Y) = Len(X)
       /\ Len(merge) = Len(X)
       /\ LET src == {SrcTriple(s[1], s[2]) : s \in Samples}
          IN  \A m \in 1..Len(X) : <<X[m], Y[m], merge[m]>> \in src
  /\ CloudWritten => rawfile[p] = CloudSeq

\* a chunk of two pings has been sanitized: samples were removed, others stay
C2_Witness ==
  /\ pc = "write"
  /\ Len(n) = 2
  /\ Len(X) >= 2
  /\ Len(X) < 2 * Len(dat_port) * Len(n)

\* ------------------------------------------------------------------------
\* C3
\* ------------------------------------------------------------------------

\* C3 as stated: a sample is kept exactly when none of its X, its Y and its
\* port/starboard intensity is NaN, so a sample with a NaN intensity is absent
C3_Original ==
  CloudWritten =>
    \A s \in Samples :
      Present(s[1], s[2]) <=>
        /\ ~IsNaN(CoordX(s[1], s[2]))
        /\ ~IsNaN(CoordY(s[1], s[2]))
        /\ ~IsNaN(SrcCell(s[1], s[2]))

\* C3 (amended): the sanitizer keeps, in order, exactly the samples whose X
\* and Y are not NaN; the three arrays have one length; the array merge holds
\* no NaN when the sanitizer runs, because a NaN intensity was replaced by 0,
\* so a sample with a NaN intensity and valid coordinates is kept with 0
C3_Amended ==
  /\ pc = "sanitize" => \A j \in 1..Len(flatten(merge)) : ~IsNaN(flatten(merge)[j])
  /\ pc = "write" =>
       /\ Len(Y) = Len(X)
       /\ Len(merge) = Len(X)
       /\ CloudSeq = SelectSeq(SrcSeq, LAMBDA tr : ~IsNaN(tr[1]) /\ ~IsNaN(tr[2]))
       /\ LET cloud == {CloudSeq[m] : m \in 1..Len(X)}
          IN  \A s \in Samples :
                (IsNaN(SrcCell(s[1], s[2])) /\ ~IsNaN(CoordX(s[1], s[2]))
                   /\ ~IsNaN(CoordY(s[1], s[2]))) =>
                  <<CoordX(s[1], s[2]), CoordY(s[1], s[2]), Fin(0)>> \in cloud
  /\ CloudWritten => Len(rawfile[p]) = Len(X)

\* the sanitizer has run on a chunk with a NaN intensity at valid coordinates
\* and with a sample whose coordinates are NaN
C3_Witness ==
  /\ pc = "write"
  /\ \E s \in Samples :
       /\ IsNaN(SrcCell(s[1], s[2]))
       /\ ~IsNaN(CoordX(s[1], s[2]))
       /\ ~IsNaN(CoordY(s[1], s[2]))
  /\ \E s \in Samples : IsNaN(CoordX(s[1], s[2])) \/ IsNaN(CoordY(s[1], s[2]))

\* ------------------------------------------------------------------------
\* C4
\* ------------------------------------------------------------------------

\* C4: the rows written to the raw-point file hold one X, one Y and one
\* intensity each, and none of them is NaN or infinite
C4_FiniteCloud ==
  CloudWritten =>
    \A m \in 1..Len(rawfile[p]) :
      /\ Len(rawfile[p][m]) = 3
      /\ IsFin(rawfile[p][m][1])
      /\ IsFin(rawfile[p][m][2])
      /\ IsFin(rawfile[p][m][3])

\* ------------------------------------------------------------------------
\* C5
\* ------------------------------------------------------------------------

\* the cells of the grid
Cells == UNION { {<<r, col>> : col \in 1..Len(grid_x[r])} : r \in 1..Len(grid_x) }

\* C5: in the masked grid a cell that lies exactly on a sample holds the
\* intensity of a sample at that place, for every resolution
C5_SampleCellKept ==
  (pc = "render" /\ dogrid = 1) =>
    \A rc \in Cells :
      \A j \in 1..Len(X) :
        (X[j] = Fin(grid_x[rc[1]][rc[2]]) /\ Y[j] = Fin(grid_y[rc[1]][rc[2]])) =>
          \E i \in 1..Len(X) :
            /\ X[i] = X[j]
            /\ Y[i] = Y[j]
            /\ dat[rc[1]][rc[2]] = merge[i]

\* ------------------------------------------------------------------------
\* C10
\* ------------------------------------------------------------------------

\* C10: a sample inside the ground range (yvec^2 < d^2, d of either sign)
\* gets NaN for X and for Y without an error being raised, the raw-point file
\* is written without it, and every sample with yvec^2 >= d^2 of a ping with
\* finite position, heading and ground range is a row of the file
C10_InsideDropped ==
  /\ pc = "sanitize" =>
       \A s \in Samples :
         InsideRange(s[1], s[2]) =>
           IsNaN(X[Pos(s[1], s[2])]) /\ IsNaN(Y[Pos(s[1], s[2])])
  /\ pc = "error" => p \in DOMAIN rawfile
  /\ (pc \in {"grid", "render"} /\ dat = << >> /\ p \in DOMAIN rawfile) =>
       LET rows == {rawfile[p][m] : m \in 1..Len(rawfile[p])}
       IN  /\ \A s \in Samples :
                /\ InsideRange(s[1], s[2]) => SrcTriple(s[1], s[2]) \notin rows
                /\ (OutsideRange(s[1], s[2]) /\ FinitePing(s[2])) =>
                     SrcTriple(s[1], s[2]) \in rows
           /\ Len(rawfile[p]) <=
                Cardinality({s \in Samples : ~InsideRange(s[1], s[2])})
  /\ CloudWritten =>
       \A m \in 1..Len(rawfile[p]) :
         ~IsNaN(rawfile[p][m][1]) /\ ~IsNaN(rawfile[p][m][2])

\* a file was written for a chunk with samples inside a positive and inside a
\* negative ground range, and with a sample outside it that is in the file
C10_Witness ==
  /\ CloudWritten
  /\ \E s \in Samples : InsideRange(s[1], s[2]) /\ d[s[2]][2] > 0
  /\ \E s \in Samples : InsideRange(s[1], s[2]) /\ d[s[2]][2] < 0
  /\ \E s \in Samples :
       OutsideRange(s[1], s[2]) /\ FinitePing(s[2]) /\ Present(s[1], s[2])

\* ------------------------------------------------------------------------
\* Vocabulary of the properties of map
\* ------------------------------------------------------------------------

\* make_map is running on chunk p
InMakeMap ==
  inMap /\ pc \in {"make_map", "sanitize", "write", "grid", "mask", "render", "kml"}

\* the number of entries of a that differ from v
CountOthers(a, v) == Cardinality({j \in 1..Len(a) : a[j] # v})

\* a is a series of two values 180 degrees apart, maj the value of most of it
OffsetMinorityOf(a, maj) ==
  /\ \E off \in {-180, 180} : \A j \in 1..Len(a) : a[j] \in {maj, maj + off}
  /\ CountOthers(a, maj) > 0
  /\ 2 * CountOthers(a, maj) < Len(a)

\* Len(a)^2 times the population variance of a
ScaledVariance(a) ==
  Len(a) * SumTo([j \in 1..Len(a) |-> a[j] * a[j]], Len(a))
    - SumTo(a, Len(a)) * SumTo(a, Len(a))

\* ------------------------------------------------------------------------
\* C6
\* ------------------------------------------------------------------------

\* C6: map processes the chunks one at a time in increasing order, and a
\* rendering failure of a chunk is caught inside make_map: the chunk's point
\* cloud file is already written, its ground-overlay descriptor is still
\* written, the call does not end in an exception, and when map is done
\* every chunk has its point cloud file.
C6_RenderFailureTolerated ==
  /\ InMakeMap => \A q \in DOMAIN rawfile : q <= p
  /\ InMakeMap => \A q \in 0..(p - 1) : q \in DOMAIN rawfile
  /\ \A q \in caught :
       /\ q \in DOMAIN rawfile
       /\ (q < p \/ pc = "done") => q \in kmls
       /\ ~(pc = "error" /\ q = p)
  /\ pc = "done" => DOMAIN rawfile = 0..(Len(star_fp) - 1)

\* ------------------------------------------------------------------------
\* C7
\* ------------------------------------------------------------------------

\* C7: when the recorded headings are a series in which a minority of the
\* samples is 180 degrees off the rest, the series that leaves the heading
\* denoiser has every sample of the minority replaced by the value
\* interpolated from the majority, which is the majority's value, and its
\* standard deviation is lower than the input's.
C7_MinorityReplaced ==
  \A maj \in {0, 90, 180, 270} :
    (/\ pc = "filt"
     /\ calc_bearing = 0
     /\ bearing.ndim = 1
     /\ OffsetMinorityOf(meta["heading"], maj))
    => /\ \A j \in 1..Len(bearing.v) : bearing.v[j] = maj
       /\ ScaledVariance(bearing.v) < ScaledVariance(meta["heading"])

\* ------------------------------------------------------------------------
\* C8
\* ------------------------------------------------------------------------

\* C8: whenever the denoiser branch has run, the filtered bearing is stored
\* in the metadata store under 'heading_filt', the raw 'heading' is still the
\* recorded series of the survey's length, and the run did not stop at the
\* store: it goes on to the chunk loop.
C8_FilteredStored ==
  warned =>
    /\ "heading_filt" \in DOMAIN meta
    /\ meta["heading_filt"] = bearing.v
    /\ Len(meta["heading"]) = Len(meta["e"])
    /\ raised # "NameError: savemat"

\* ------------------------------------------------------------------------
\* C9
\* ------------------------------------------------------------------------

\* the bearing array of the fixes in the metadata store, as C9 describes it
BearingArrayOK ==
  LET lat == meta["lat"]
      lon == meta["lon"]
      N == Len(lat)
  IN  /\ bearing.ndim = 1
      /\ Len(bearing.v) = N
      /\ \A k \in 1..(N - 1) :
           /\ bearing.v[k] = bearingBetweenPoints(lat[k], lat[k + 1], lon[k], lon[k + 1])
           /\ bearing.v[k] >= 0
           /\ bearing.v[k] < 360
      /\ bearing.v[N] = 0

\* C9: when calc_bearing is 1, for fixes of any length N >= 1, once the
\* bearing estimator has run the bearing array has exactly N entries, entry
\* k < N-1 is bearingBetweenPoints of fix k and fix k+1 and lies in [0, 360),
\* and the last entry is 0.
C9_BearingPerFix ==
  (calc_bearing = 1 /\ pc \notin {"map", "bearing"}) => BearingArrayOK

\* ------------------------------------------------------------------------
\* C11
\* ------------------------------------------------------------------------

\* the across-track offset y - n[k] of sample i of ping k, read back from the
\* flattened coordinates through the rotation and the beam offset of the
\* ping's heading
AcrossOffset(i, k) ==
  LET x == X[Pos(i, k)]
      y == Y[Pos(i, k)]
  IN  CASE t[k][2] % 360 = 0 -> FSub(FSub(y, n[k]), d[k])
        [] t[k][2] % 360 = 90 -> FSub(FAdd(e[k], d[k]), x)
        [] t[k][2] % 360 = 180 -> FSub(FSub(n[k], d[k]), y)
        [] t[k][2] % 360 = 270 -> FAdd(FSub(x, e[k]), d[k])

\* +sqrt(r^2 - d[k]^2) for a row of the first half, -sqrt(...) for a row of
\* the second half, r the range of the row's bin; NaN inside the ground range
HalfOffset(i, k, r) ==
  LET dk == d[k][2]
  IN  IF r * r < dk * dk THEN NaN
      ELSE IF i <= Len(dat_port) THEN Fin(ISqrt(r * r - dk * dk))
      ELSE Fin(-ISqrt(r * r - dk * dk))

\* C11 as stated: yvec has extent entries linearly spaced from 0 to
\* extent*pix_m (first entry 0, last entry extent*pix_m), and the
\* across-track vector of every ping has 2*extent entries, n[k] +
\* sqrt(yvec^2 - d[k]^2) in the first half and n[k] - sqrt(yvec^2 - d[k]^2)
\* in the second.
C11_Original ==
  pc = "sanitize" =>
    LET extent == extentOf(merge)
        yvec == yvecOf(pix_m, extent)
        claimed == linspace(0, extent * pix_m, extent)
    IN  /\ Len(yvec) = extent
        /\ yvec[1] = 0
        /\ yvec[extent] = extent * pix_m
        /\ Len(X) = 2 * extent * Len(n)
        /\ \A s \in Samples :
             FinitePing(s[2]) =>
               AcrossOffset(s[1], s[2]) = HalfOffset(s[1], s[2], claimed[Bin(s[1])])

\* C11, amended: yvec has extent entries spaced pix_m apart from pix_m to
\* extent*pix_m (entry i is i*pix_m: the first is pix_m, not 0), and the
\* across-track vector of every ping has 2*extent entries, n[k] +
\* sqrt(yvec^2 - d[k]^2) in the first half and n[k] - sqrt(yvec^2 - d[k]^2)
\* in the second, NaN where yvec^2 < d[k]^2.
C11_Amended ==
  pc = "sanitize" =>
    LET extent == extentOf(merge)
        yvec == yvecOf(pix_m, extent)
    IN  /\ Len(yvec) = extent
        /\ \A i \in 1..extent : yvec[i] = i * pix_m
        /\ Len(X) = 2 * extent * Len(n)
        /\ Len(Y) = 2 * extent * Len(n)
        /\ \A s \in Samples :
             FinitePing(s[2]) =>
               AcrossOffset(s[1], s[2]) = HalfOffset(s[1], s[2], Bin(s[1]) * pix_m)

\* a ping off heading 0 has a sample with a positive offset in the first
\* half, its mirror in the second half, and a bin inside the ground range
C11_Witness ==
  /\ pc = "sanitize"
  /\ \E k \in 1..Len(n) :
       /\ FinitePing(k)
       /\ t[k][2] # 0
       /\ \E i \in 1..Len(dat_port) :
            /\ IsFin(AcrossOffset(i, k))
            /\ AcrossOffset(i, k)[2] > 0
            /\ AcrossOffset(i + Len(dat_port), k) = FNeg(AcrossOffset(i, k))
       /\ \E i \in 1..Len(dat_port) : IsNaN(AcrossOffset(i, k))

\* ------------------------------------------------------------------------
\* C12
\* ------------------------------------------------------------------------

\* C12: when filt_bearing is 1, for a bearing series of any length L >= 1,
\* also L < 100, the moving-average filter of map runs with a window of at
\* least 1, raises nothing, and hands on a series of length L.
C12_FilterCompletes ==
  filt_bearing = 1 =>
    /\ raised \notin {"ValueError: convolve", "TypeError: len(bearing)"}
    /\ pc = "theta" =>
         /\ bearing.ndim = 1
         /\ Len(bearing.v) = Len(meta["heading"])

\* ------------------------------------------------------------------------
\* C13
\* ------------------------------------------------------------------------

\* the mean of the N samples of a from index j on, j counted from 1
MeanFrom(a, j, N) == (SumTo(a, j + N - 1) - SumTo(a, j - 1)) \div N

\* runningMeanFast has returned from a call with 1 <= N < len(x)
ReturnedInRange ==
  pc = "returned" /\ rmf.N >= 1 /\ rmf.N < Len(rmf.arg)

BearingInRange ==
  \/ calc_bearing = 1
  \/ \A j \in 1..Len(meta["heading"]) :
       meta["heading"][j] >= 0 /\ meta["heading"][j] <= 360

\* the series before the denoiser: lines 244-247, or line 251
BearingIn ==
  IF calc_bearing = 1
  THEN squeeze(PointToPoint(meta["lat"], meta["lon"]))
  ELSE squeeze(meta["heading"])

\* C14: for a bearing series whose values all lie in [0, 360], computed from
\* the fixes or recorded, the population standard deviation is at most 180,
\* so the test std(bearing) > 180 is never true: map prints no warning, the
\* repair does not run and does not end the run, the series that leaves the
\* denoiser is the series that entered it, and the metadata store holds no
\* 'heading_filt'.
C14_NeverDenoised ==
  BearingInRange =>
    /\ ~warned
    /\ raised # "NameError: savemat"
    /\ "heading_filt" \notin DOMAIN meta
    /\ (pc \in {"denoise", "filt"} /\ bearing.ndim = 1) =>
         /\ \A j \in 1..Len(bearing.v) : bearing.v[j] >= 0 /\ bearing.v[j] <= 360
         /\ ScaledVariance(bearing.v) <= 180 * 180 * Len(bearing.v) * Len(bearing.v)
    /\ pc = "filt" => bearing = BearingIn

\* a recorded series in range whose standard deviation is exactly 180 has
\* passed the denoiser
C14_Witness ==
  /\ pc = "filt"
  /\ calc_bearing = 0
  /\ BearingInRange
  /\ bearing.ndim = 1
  /\ ScaledVariance(bearing.v) = 180 * 180 * Len(bearing.v) * Len(bearing.v)
  /\ ~warned

====
